---------------------------- MODULE Spec2Model ----------------------------
(***************************************************************************)
(* A state-machine model of the sensitive-API pipeline of APKSecureScan:   *)
(* "sesitive APIs/sensitiveAPI_to_LLM.py" (catalog loading, fuzzy          *)
(* correlation, the intermediate summary, chunking, the retrying LLM       *)
(* client, the report aggregator, main) and of chunk_permissions of        *)
(* "Permission Extracter/permission_to_LLM.py".                            *)
(*                                                                         *)
(* Strings are sequences of one-character strings, so that lower(),        *)
(* strip() and the substring test `in` are computed as Python computes     *)
(* them.  A dict is a sequence of entries with distinct keys, in insertion *)
(* order, which is the iteration order Python guarantees.                  *)
(***************************************************************************)
EXTENDS Integers, Sequences, FiniteSets, TLC

VARIABLES
    pc,             \* position in main() / in the function under test
    sourcesFile,    \* SUSI_SOURCES_PATH on disk: NoFile or File(lines)
    sinksFile,      \* SUSI_SINKS_PATH on disk
    reportFile,     \* MOBSF_JSON_PATH on disk: missing, malformed or a document
    susi_methods,   \* main: the catalog dict, method name -> kind
    mobsf_entries,  \* main: list of (category, path)
    matches,        \* main: list of (typ, category, path)
    summary,        \* generate_suspicious_summary: the defaultdict it returns
    artifact,       \* INTERMEDIATE_OUTPUT on disk: NoFile or its lines
    artifactWrites, \* how many times INTERMEDIATE_OUTPUT was opened for writing
    permissions,    \* argument of chunk_permissions
    chunk_size,     \* chunk_size argument of the chunking call
    chunks,         \* main: the list of chunks
    unit,           \* main: index i of the for loop over chunks (0 before it)
    results,        \* main: the list of raw responses
    unitState,      \* per chunk: where its analysis stands
    rc,             \* the frame of analyze_with_llm_with_retry
    remote,         \* the remote service: what the next calls will do
    calls,          \* number of client.chat.completions.create calls made
    agg,            \* the frame of generate_final_report
    finalReport,    \* FINAL_REPORT_PATH on disk: NoFile or the report
    reportWrites,   \* how many times FINAL_REPORT_PATH was written
    abortCause      \* the uncaught exception that ended the run, or "none"

inputVars == <<sourcesFile, sinksFile, reportFile>>
corrVars  == <<susi_methods, mobsf_entries, matches, summary>>
artVars   == <<artifact, artifactWrites>>
chunkVars == <<permissions, chunk_size, chunks>>
loopVars  == <<unit, results, unitState>>
rcVars    == <<rc, remote, calls>>
aggVars   == <<agg, finalReport, reportWrites>>
vars == <<pc, inputVars, corrVars, artVars, chunkVars, loopVars, rcVars,
          aggVars, abortCause>>

(***************************************************************************)
(* Bounds of the model.                                                    *)
(***************************************************************************)
MaxTaxLines == 2      \* lines per taxonomy file in CatalogSpec
MaxFileLines == 4     \* lines of the chunked input in ChunkSpec
MaxChunkSize == 3     \* chunk_size argument in ChunkSpec
MaxRetries == 4       \* retries argument in RetrySpec
MaxFailures == 5      \* k, the scripted number of failing calls, in RetrySpec
ChunkSizeInRun == 2   \* stands for CHUNK_SIZE (150) in a run of main
MaxCategories == 2    \* categories of the scan report in CorrelateSpec
MaxFiles == 2         \* files per category in CorrelateSpec
MaxResults == 3       \* raw responses given to the aggregator in AggSpec

(***************************************************************************)
(* Program constants.                                                      *)
(***************************************************************************)
DefaultRetries == 3   \* analyze_with_llm_with_retry(prompt, retries=3)
MinNameLen == 2       \* len(method_name) > 2

\* A text file on disk: absent, or the sequence of its lines.
NoFile == [exists |-> FALSE, lines |-> <<>>]
File(ls) == [exists |-> TRUE, lines |-> ls]

\* The scan report on disk: absent, not JSON, or a JSON document.
MissingReport ==
    [exists |-> FALSE, valid |-> FALSE, has_api |-> FALSE, android_api |-> <<>>]
MalformedReport ==
    [exists |-> TRUE, valid |-> FALSE, has_api |-> FALSE, android_api |-> <<>>]
Report(has_api, android_api) ==
    [exists |-> TRUE, valid |-> TRUE, has_api |-> has_api,
     android_api |-> android_api]

\* Python's None
None == [t |-> "None"]

(***************************************************************************)
(* Python string operations.                                               *)
(***************************************************************************)
UpperChars == <<"A","B","C","D","E","F","G","H","I","J","K","L","M",
                "N","O","P","Q","R","S","T","U","V","W","X","Y","Z">>
LowerChars == <<"a","b","c","d","e","f","g","h","i","j","k","l","m",
                "n","o","p","q","r","s","t","u","v","w","x","y","z">>

LowerChar(c) ==
    IF \E i \in 1..Len(UpperChars) : UpperChars[i] = c
    THEN LowerChars[CHOOSE i \in 1..Len(UpperChars) : UpperChars[i] = c]
    ELSE c

\* str.lower()
lower(s) == [i \in 1..Len(s) |-> LowerChar(s[i])]

\* `m in s` for strings
IsSubstring(m, s) ==
    \E i \in 0..(Len(s) - Len(m)) : SubSeq(s, i + 1, i + Len(m)) = m

IsSpace(c) == c \in {" ", "\t", "\n"}

RECURSIVE lstrip(_)
lstrip(s) ==
    IF s = <<>> THEN <<>>
    ELSE IF IsSpace(Head(s)) THEN lstrip(Tail(s)) ELSE s

RECURSIVE rstrip(_)
rstrip(s) ==
    IF s = <<>> THEN <<>>
    ELSE IF IsSpace(s[Len(s)]) THEN rstrip(SubSeq(s, 1, Len(s) - 1)) ELSE s

\* str.strip()
strip(s) == rstrip(lstrip(s))

Digit == <<"0","1","2","3","4","5","6","7","8","9">>

\* str(n) of a non-negative int, as the f-string renders it
RECURSIVE DecStr(_)
DecStr(n) ==
    IF n < 10 THEN <<Digit[n + 1]>>
    ELSE DecStr(n \div 10) \o <<Digit[(n % 10) + 1]>>

(***************************************************************************)
(* Python dict operations: a dict is a sequence of [key, val] records.     *)
(***************************************************************************)
HasKey(d, k) == \E i \in 1..Len(d) : d[i].key = k

KeyIndex(d, k) == CHOOSE i \in 1..Len(d) : d[i].key = k

\* d[k]
DictGet(d, k) == d[KeyIndex(d, k)].val

\* d[k] = v : an existing key keeps its position, a new key goes last
DictSet(d, k, v) ==
    IF HasKey(d, k) THEN [d EXCEPT ![KeyIndex(d, k)].val = v]
    ELSE Append(d, [key |-> k, val |-> v])

\* d.update(e)
RECURSIVE DictUpdate(_, _)
DictUpdate(d, e) ==
    IF e = <<>> THEN d
    ELSE DictUpdate(DictSet(d, Head(e).key, Head(e).val), Tail(e))

(***************************************************************************)
(* Catalog Loader.  A taxonomy line is [shape, name]: shape "method" for a *)
(* line that starts with "<", contains ">" and on which the regular        *)
(* expression finds a match, name being its group 2; "other" otherwise.    *)
(***************************************************************************)
\* line 46: if len(method_name) > 2
AdmitsName(method_name) == Len(method_name) > MinNameLen

NormalizeName_NoLower(raw) == raw

\* line 45: match.group(2).lower()
NormalizeName(raw) == lower(raw)

\* lines 40-47, the loop over the lines of the file
RECURSIVE ParseLines(_, _, _)
ParseLines(lines, typ, methods) ==
    IF lines = <<>> THEN methods
    ELSE LET line == Head(lines)
             method_name == NormalizeName(line.name)
         IN  IF line.shape = "method" /\ AdmitsName(method_name)
             THEN ParseLines(Tail(lines), typ, DictSet(methods, method_name, typ))
             ELSE ParseLines(Tail(lines), typ, methods)

parse_susi_methods_only(file, typ) ==
    IF ~file.exists THEN <<>>              \* lines 35-37
    ELSE ParseLines(file.lines, typ, <<>>)

(***************************************************************************)
(* Evidence Correlator.  A scan report on disk is missing, malformed (not   *)
(* JSON) or a document [has_api, android_api]: android_api is the dict     *)
(* category -> detail, a detail is [has_files, files], files the sequence  *)
(* of the keys of its "files" dict.                                        *)
(***************************************************************************)
\* lines 56-57: the inner loop over detail.get("files", {})
RECURSIVE EntriesOfFiles(_, _)
EntriesOfFiles(category, files) ==
    IF files = <<>> THEN <<>>
    ELSE <<[category |-> lower(category), path |-> lower(Head(files))]>>
         \o EntriesOfFiles(category, Tail(files))

\* lines 55-57: the loop over android_api.items()
RECURSIVE EntriesOfApi(_)
EntriesOfApi(android_api) ==
    IF android_api = <<>> THEN <<>>
    ELSE LET category == Head(android_api).key
             detail == Head(android_api).val
             files == IF detail.has_files THEN detail.files ELSE <<>>
         IN  EntriesOfFiles(category, files) \o EntriesOfApi(Tail(android_api))

\* lines 50-58; open() and json.load() raise, nothing here catches
load_mobsf_api_sections(report) ==
    IF ~report.exists
    THEN [exc |-> "FileNotFoundError", entries |-> <<>>]
    ELSE IF ~report.valid
    THEN [exc |-> "JSONDecodeError", entries |-> <<>>]
    ELSE [exc |-> "none",
          entries |-> IF report.has_api THEN EntriesOfApi(report.android_api)
                      ELSE <<>>]

MethodMatches_CategoryOnly(method, category, path) ==
    IsSubstring(method, category)

\* line 64: if method in category or method in path
MethodMatches(method, category, path) ==
    IsSubstring(method, category) \/ IsSubstring(method, path)

\* lines 63-65: the inner loop over susi_methods.items()
RECURSIVE MatchesOfEntry(_, _)
MatchesOfEntry(entry, methods) ==
    IF methods = <<>> THEN <<>>
    ELSE (IF MethodMatches(Head(methods).key, entry.category, entry.path)
          THEN <<[typ |-> Head(methods).val, category |-> entry.category,
                  path |-> entry.path]>>
          ELSE <<>>)
         \o MatchesOfEntry(entry, Tail(methods))

\* lines 60-66
RECURSIVE fuzzy_match(_, _)
fuzzy_match(entries, methods) ==
    IF entries = <<>> THEN <<>>
    ELSE MatchesOfEntry(Head(entries), methods)
         \o fuzzy_match(Tail(entries), methods)

(***************************************************************************)
(* Correlation Summary Writer.                                             *)
(***************************************************************************)
\* line 69: the defaultdict's factory
NewCounts == [source |-> 0, sink |-> 0]

Bump_Overwrite(summ, m) ==
    DictSet(summ, <<m.category, m.path>>, [NewCounts EXCEPT ![m.typ] = 1])

Bump_Prepend(summ, m) ==
    LET k == <<m.category, m.path>>
    IN  IF HasKey(summ, k)
        THEN DictSet(summ, k, [DictGet(summ, k) EXCEPT ![m.typ] = @ + 1])
        ELSE <<[key |-> k, val |-> [NewCounts EXCEPT ![m.typ] = @ + 1]]>>
             \o summ

\* line 71: summary[(category, path)][typ] += 1
Bump(summ, m) ==
    LET k == <<m.category, m.path>>
        old == IF HasKey(summ, k) THEN DictGet(summ, k) ELSE NewCounts
    IN  DictSet(summ, k, [old EXCEPT ![m.typ] = @ + 1])

\* lines 70-71
RECURSIVE FoldMatches(_, _)
FoldMatches(ms, summ) ==
    IF ms = <<>> THEN summ
    ELSE FoldMatches(Tail(ms), Bump(summ, Head(ms)))

\* line 76: the f-string ("->" stands for the arrow character)
FormatLine(category, path, counts) ==
    <<"- File: ">> \o path \o <<" | Category: ">> \o category
    \o <<" -> Sources: ">> \o DecStr(counts.source)
    \o <<", Sinks: ">> \o DecStr(counts.sink)

\* lines 74-77: one f.write per entry that passes the test of line 75
RECURSIVE SummaryLines(_)
SummaryLines(summ) ==
    IF summ = <<>> THEN <<>>
    ELSE LET e == Head(summ)
         IN  (IF e.val.source > 0 \/ e.val.sink > 0
              THEN <<FormatLine(e.key[1], e.key[2], e.val)>>
              ELSE <<>>)
             \o SummaryLines(Tail(summ))

WriteFile_Append(old, ls) == File(old.lines \o ls)

\* line 73: open(output_path, "w") truncates the file, the writes of line 77
\* are its new content
WriteFile(old, ls) == File(ls)

\* lines 68-79: the dict returned and the lines written
generate_suspicious_summary(ms) ==
    LET summ == FoldMatches(ms, <<>>)
    IN  [summary |-> summ, written |-> SummaryLines(summ)]

(***************************************************************************)
(* Chunking Engine.  A text file is the sequence of its lines without      *)
(* their terminators; iterating over it yields each line with its "\n".    *)
(***************************************************************************)
ReadLines(file) == [i \in 1..Len(file) |-> file[i] \o <<"\n">>]

\* "\n".join(ls)
RECURSIVE JoinLines(_)
JoinLines(ls) ==
    IF ls = <<>> THEN <<>>
    ELSE IF Len(ls) = 1 THEN Head(ls)
    ELSE Head(ls) \o <<"\n">> \o JoinLines(Tail(ls))

\* line 83: [line.strip() for line in f if line.strip()]
RECURSIVE StrippedNonBlank(_)
StrippedNonBlank(ls) ==
    IF ls = <<>> THEN <<>>
    ELSE (IF strip(Head(ls)) # <<>> THEN <<strip(Head(ls))>> ELSE <<>>)
         \o StrippedNonBlank(Tail(ls))

Min(a, b) == IF a < b THEN a ELSE b

RECURSIVE Slices_DropShortTail(_, _, _)
Slices_DropShortTail(lines, size, i) ==
    IF i + size > Len(lines) THEN <<>>
    ELSE <<JoinLines(SubSeq(lines, i + 1, i + size))>>
         \o Slices_DropShortTail(lines, size, i + size)

\* the comprehension of line 84 (and of line 42), from index i on:
\* lines[i:i + size] for i in range(i, len(lines), size)
RECURSIVE Slices(_, _, _)
Slices(lines, size, i) ==
    IF i >= Len(lines) THEN <<>>
    ELSE <<JoinLines(SubSeq(lines, i + 1, Min(i + size, Len(lines))))>>
         \o Slices(lines, size, i + size)

\* sensitiveAPI_to_LLM.py lines 81-84
load_and_chunk_files(file, size) ==
    Slices(StrippedNonBlank(ReadLines(file.lines)), size, 0)

\* permission_to_LLM.py lines 41-42
chunk_permissions(perms, size) == Slices(perms, size, 0)

(***************************************************************************)
(* Python values handled by the client and the aggregator.                 *)
(*   None                                                                  *)
(*   a str   [t = "str", empty, doc]: doc says what the text spells, as    *)
(*           far as json.loads can tell: not JSON, null, a list, an object *)
(*   a list  [t = "list", len]                                             *)
(*   a dict  [t = "dict", keys, risk_level, key_indicators]                *)
(***************************************************************************)
Str(empty, doc) == [t |-> "str", empty |-> empty, doc |-> doc]

NotJson == [j |-> "invalid"]
JsonNull == [j |-> "null"]
JsonList(n) == [j |-> "list", len |-> n]
JsonObject(keys, risk, indicators) ==
    [j |-> "object", keys |-> keys, risk_level |-> risk,
     key_indicators |-> indicators]

\* bool(v)
Truthy(v) ==
    CASE v.t = "None" -> FALSE
      [] v.t = "str"  -> ~v.empty
      [] v.t = "list" -> v.len > 0
      [] v.t = "dict" -> v.keys # {}

\* json.loads(s) for a str s
json_loads(s) ==
    CASE s.doc.j = "invalid" -> [raised |-> TRUE, value |-> None]
      [] s.doc.j = "null"    -> [raised |-> FALSE, value |-> None]
      [] s.doc.j = "list"    ->
            [raised |-> FALSE, value |-> [t |-> "list", len |-> s.doc.len]]
      [] s.doc.j = "object"  ->
            [raised |-> FALSE,
             value |-> [t |-> "dict", keys |-> s.doc.keys,
                        risk_level |-> s.doc.risk_level,
                        key_indicators |-> s.doc.key_indicators]]

\* lines 26-31
safe_json_load(s) ==
    IF ~Truthy(s) THEN None
    ELSE IF json_loads(s).raised THEN None
    ELSE json_loads(s).value

(***************************************************************************)
(* Risk Analysis Client.  An outcome of client.chat.completions.create is  *)
(* [exc, content]: the exception it raises ("none" when it returns) and    *)
(* the content of its first choice.                                        *)
(***************************************************************************)
\* lines 86-99: what the call returns, and whether an exception leaves it
call_groq_llm(outcome) ==
    IF outcome.exc = "none"
    THEN [raised |-> FALSE, value |-> outcome.content]
    ELSE [raised |-> FALSE, value |-> None]

IsSuccess_NotNone(result) == result # None

\* line 104: if result
IsSuccess(result) == Truthy(result)

MoreAttempts_OneMore(attempt, retries) == attempt + 1 <= retries

\* line 102: whether range(retries) yields another value after `attempt`
MoreAttempts(attempt, retries) == attempt + 1 < retries

BackoffWait_Fixed(attempt) == 2

\* line 106: wait = 2 ** attempt
BackoffWait(attempt) == 2 ^ attempt

\* the frame of analyze_with_llm_with_retry: who called it, its retries
\* argument, the loop variable, the last result and the seconds slept so far
IdleRc ==
    [for |-> "none", retries |-> DefaultRetries, attempt |-> 0,
     result |-> None, waited |-> 0]

\* where analyze_with_llm_with_retry returns to
ReturnSite(for) ==
    CASE for = "unit"    -> "main_append"     \* line 214
      [] for = "summary" -> "agg_assemble"    \* line 185
      [] for = "test"    -> "test_returned"

\* lines 101-102: the call and the first evaluation of range(retries)
RcEnter(for, retries) ==
    LET frame == [for |-> for, retries |-> retries, attempt |-> 0,
                  result |-> None, waited |-> 0]
    IN  IF retries > 0 THEN [pc |-> "rc_call", rc |-> frame]
        ELSE [pc |-> ReturnSite(for), rc |-> frame]

(***************************************************************************)
(* Report Aggregator.                                                      *)
(***************************************************************************)
\* line 147: [safe_json_load(r) for r in results if r]
RECURSIVE LoadAll(_)
LoadAll(rs) ==
    IF rs = <<>> THEN <<>>
    ELSE (IF Truthy(Head(rs)) THEN <<safe_json_load(Head(rs))>> ELSE <<>>)
         \o LoadAll(Tail(rs))

RECURSIVE KeepTruthy_Reversed(_)
KeepTruthy_Reversed(vs) ==
    IF vs = <<>> THEN <<>>
    ELSE KeepTruthy_Reversed(Tail(vs))
         \o (IF Truthy(Head(vs)) THEN <<Head(vs)>> ELSE <<>>)

\* line 148: [r for r in parsed_results if r]
RECURSIVE KeepTruthy(_)
KeepTruthy(vs) ==
    IF vs = <<>> THEN <<>>
    ELSE (IF Truthy(Head(vs)) THEN <<Head(vs)>> ELSE <<>>)
         \o KeepTruthy(Tail(vs))

\* r.get("risk_level") of a dict: "" stands for the None of an absent key
GetRiskLevel(r) == IF "risk_level" \in r.keys THEN r.risk_level ELSE ""

\* lines 153-154: sum(1 for r in parsed_results if r.get("risk_level") == level)
RECURSIVE CountLevel(_, _)
CountLevel(parsed, level) ==
    IF parsed = <<>> THEN 0
    ELSE (IF GetRiskLevel(Head(parsed)) = level THEN 1 ELSE 0)
         + CountLevel(Tail(parsed), level)

TotalChunks_Parsed(rs, parsed) == Len(parsed)

\* line 152: "total_chunks": len(results)
TotalChunks(rs, parsed) == Len(rs)

\* line 153
HighRisk(parsed) == CountLevel(parsed, "high")

NoReport ==
    [built |-> FALSE, total_chunks |-> 0, high_risk |-> 0, medium_risk |-> 0,
     detailed_findings |-> <<>>, executive_summary |-> None]

\* lines 147-158: r.get on a value that is no dict raises AttributeError
BuildReport(rs) ==
    LET parsed == KeepTruthy(LoadAll(rs))
    IN  IF \E i \in 1..Len(parsed) : parsed[i].t # "dict"
        THEN [exc |-> "AttributeError", parsed |-> parsed, report |-> NoReport]
        ELSE [exc |-> "none", parsed |-> parsed,
              report |-> [built |-> TRUE,
                          total_chunks |-> TotalChunks(rs, parsed),
                          high_risk |-> HighRisk(parsed),
                          medium_risk |-> CountLevel(parsed, "medium"),
                          detailed_findings |-> parsed,
                          executive_summary |-> None]]

\* lines 161-163: the generator, for dicts; the first exception ends it
RECURSIVE TopIndicators(_)
TopIndicators(parsed) ==
    IF parsed = <<>> THEN [exc |-> "none", items |-> <<>>]
    ELSE LET r == Head(parsed)
             rest == TopIndicators(Tail(parsed))
         IN  IF "risk_level" \notin r.keys
             THEN [exc |-> "KeyError", items |-> <<>>]
             ELSE IF r.risk_level \notin {"high", "medium"} THEN rest
             ELSE IF "key_indicators" \notin r.keys
             THEN [exc |-> "KeyError", items |-> <<>>]
             ELSE IF r.key_indicators = <<>>
             THEN [exc |-> "IndexError", items |-> <<>>]
             ELSE IF rest.exc # "none" THEN rest
             ELSE [exc |-> "none",
                   items |-> <<r.key_indicators[1]>> \o rest.items]

WithSummary_OnlyIfReturned(report, s) ==
    IF s = None THEN [report EXCEPT !.detailed_findings = <<>>]
    ELSE [report EXCEPT !.executive_summary = s]

\* line 186: report["executive_summary"] = analyze_with_llm_with_retry(...)
WithSummary(report, s) == [report EXCEPT !.executive_summary = s]

IdleAgg ==
    [parsed_results |-> <<>>, report |-> NoReport, top_indicators |-> <<>>,
     summary_requests |-> 0]

(***************************************************************************)
(* The remote service.  In a run of main any call may raise, return no     *)
(* content, return empty content or return a text; under test it is        *)
(* scripted: its first `fails` calls fail and every later call returns     *)
(* `text`.                                                                 *)
(***************************************************************************)
Raises(kind) == [exc |-> kind, content |-> None]
Returns(content) == [exc |-> "none", content |-> content]

Prose == Str(FALSE, NotJson)
EmptyStr == Str(TRUE, NotJson)

Verdict(risk, indicators) ==
    Str(FALSE, JsonObject({"risk_level", "key_indicators", "summary"},
                          risk, indicators))

\* texts a per-unit call may return
VerdictTexts ==
    { Prose,
      Str(FALSE, JsonNull),
      Str(FALSE, JsonList(1)),
      Str(FALSE, JsonObject({}, "", <<>>)),
      Str(FALSE, JsonObject({"summary"}, "", <<>>)),
      Str(FALSE, JsonObject({"risk_level", "summary"}, "low", <<>>)),
      Str(FALSE, JsonObject({"risk_level", "summary"}, "high", <<>>)),
      Verdict("low", << <<"l1">> >>),
      Verdict("medium", << <<"m1">> >>),
      Verdict("high", << <<"h1">>, <<"h2">> >>),
      Verdict("high", <<>>) }

\* a transport error, a timeout, an error answer of the API; a choice
\* without content; empty content
FailingOutcomes ==
    { Raises("APIConnectionError"), Raises("APITimeoutError"),
      Raises("RateLimitError"), Returns(None), Returns(EmptyStr) }

AnyRemote == [mode |-> "any", fails |-> 0, text |-> Prose]
Scripted(k, text) == [mode |-> "script", fails |-> k, text |-> text]

RemoteOutcomes ==
    IF remote.mode = "script"
    THEN IF calls < remote.fails THEN FailingOutcomes
         ELSE {Returns(remote.text)}
    ELSE FailingOutcomes
         \cup {Returns(t) : t \in IF rc.for = "unit" THEN VerdictTexts
                                  ELSE {Prose}}

(***************************************************************************)
(* The state of one chunk's analysis (section 4.5 of the specification),   *)
(* read off the position of the code: Pending before the loop of line 211  *)
(* reaches it, Attempt while line 103 runs, Backoff while lines 106-108    *)
(* run, Success at the return of line 105, Dropped at that of line 109.    *)
(***************************************************************************)
PendingUnit == [st |-> "Pending", attempt |-> 0, fails |-> 0, attempts |-> 0]

SetUnit(us, for, u, st, attempt, failed, started) ==
    IF for = "unit"
    THEN [us EXCEPT ![u] = [st |-> st, attempt |-> attempt,
                            fails |-> @.fails + failed,
                            attempts |-> @.attempts + started]]
    ELSE us

(***************************************************************************)
(* analyze_with_llm_with_retry, lines 101-109.                             *)
(***************************************************************************)
\* line 103 (call_groq_llm, lines 86-99) and lines 104-105
RcCall ==
    /\ pc = "rc_call"
    /\ \E outcome \in RemoteOutcomes :
         LET r == call_groq_llm(outcome)
         IN  /\ calls' = calls + 1
             /\ IF r.raised
                THEN /\ pc' = "aborted"
                     /\ abortCause' = outcome.exc
                     /\ UNCHANGED <<rc, unitState>>
                ELSE /\ rc' = [rc EXCEPT !.result = r.value]
                     /\ abortCause' = abortCause
                     /\ IF IsSuccess(r.value)
                        THEN /\ pc' = ReturnSite(rc.for)
                             /\ unitState' = SetUnit(unitState, rc.for, unit,
                                                     "Success", rc.attempt, 0, 0)
                        ELSE /\ pc' = "rc_backoff"
                             /\ unitState' = SetUnit(unitState, rc.for, unit,
                                                     "Backoff", rc.attempt, 1, 0)
    /\ UNCHANGED <<inputVars, corrVars, artVars, chunkVars, unit, results,
                   remote, aggVars>>

\* lines 106-108, then the next value of range(retries) or line 109
RcBackoff ==
    /\ pc = "rc_backoff"
    /\ LET slept == [rc EXCEPT !.waited = @ + BackoffWait(rc.attempt)]
       IN  IF MoreAttempts(rc.attempt, rc.retries)
           THEN /\ rc' = [slept EXCEPT !.attempt = @ + 1]
                /\ pc' = "rc_call"
                /\ unitState' = SetUnit(unitState, rc.for, unit,
                                        "Attempt", rc.attempt + 1, 0, 1)
           ELSE /\ rc' = [slept EXCEPT !.result = None]
                /\ pc' = ReturnSite(rc.for)
                /\ unitState' = SetUnit(unitState, rc.for, unit,
                                        "Dropped", rc.attempt, 0, 0)
    /\ UNCHANGED <<inputVars, corrVars, artVars, chunkVars, unit, results,
                   remote, calls, aggVars, abortCause>>

(***************************************************************************)
(* main, lines 192-228.                                                    *)
(***************************************************************************)
\* lines 196-197
LoadSources ==
    /\ pc = "main_sources"
    /\ susi_methods' =
         DictUpdate(<<>>, parse_susi_methods_only(sourcesFile, "source"))
    /\ pc' = "main_sinks"
    /\ UNCHANGED <<inputVars, mobsf_entries, matches, summary, artVars,
                   chunkVars, loopVars, rcVars, aggVars, abortCause>>

\* line 198
LoadSinks ==
    /\ pc = "main_sinks"
    /\ susi_methods' =
         DictUpdate(susi_methods, parse_susi_methods_only(sinksFile, "sink"))
    /\ pc' = "main_report"
    /\ UNCHANGED <<inputVars, mobsf_entries, matches, summary, artVars,
                   chunkVars, loopVars, rcVars, aggVars, abortCause>>

\* line 201; an exception of load_mobsf_api_sections ends the run
LoadReport ==
    /\ pc = "main_report"
    /\ LET r == load_mobsf_api_sections(reportFile)
       IN  IF r.exc # "none"
           THEN /\ pc' = "aborted"
                /\ abortCause' = r.exc
                /\ UNCHANGED mobsf_entries
           ELSE /\ pc' = "main_match"
                /\ mobsf_entries' = r.entries
                /\ UNCHANGED abortCause
    /\ UNCHANGED <<inputVars, susi_methods, matches, summary, artVars,
                   chunkVars, loopVars, rcVars, aggVars>>

\* line 204
Correlate ==
    /\ pc = "main_match"
    /\ matches' = fuzzy_match(mobsf_entries, susi_methods)
    /\ pc' = "main_summary"
    /\ UNCHANGED <<inputVars, susi_methods, mobsf_entries, summary, artVars,
                   chunkVars, loopVars, rcVars, aggVars, abortCause>>

\* line 205: open(output_path, "w") replaces the file
WriteSummary ==
    /\ pc = "main_summary"
    /\ LET g == generate_suspicious_summary(matches)
       IN  /\ summary' = g.summary
           /\ artifact' = WriteFile(artifact, g.written)
    /\ artifactWrites' = artifactWrites + 1
    /\ pc' = "main_chunk"
    /\ UNCHANGED <<inputVars, susi_methods, mobsf_entries, matches,
                   chunkVars, loopVars, rcVars, aggVars, abortCause>>

\* lines 208-209
ChunkArtifact ==
    /\ pc = "main_chunk"
    /\ chunks' = load_and_chunk_files(artifact, chunk_size)
    /\ results' = <<>>
    /\ unit' = 0
    /\ unitState' = [u \in 1..Len(chunks') |-> PendingUnit]
    /\ pc' = "main_loop"
    /\ UNCHANGED <<inputVars, corrVars, artVars, permissions, chunk_size,
                   rcVars, aggVars, abortCause>>

\* lines 211-214: the next chunk, its prompt, the call of the retry client
NextUnit ==
    /\ pc = "main_loop"
    /\ unit < Len(chunks)
    /\ unit' = unit + 1
    /\ LET e == RcEnter("unit", DefaultRetries)
       IN  /\ rc' = e.rc
           /\ pc' = e.pc
           /\ unitState' =
                IF e.pc = "rc_call"
                THEN SetUnit(unitState, "unit", unit + 1, "Attempt", 0, 0, 1)
                ELSE SetUnit(unitState, "unit", unit + 1, "Dropped", 0, 0, 0)
    /\ UNCHANGED <<inputVars, corrVars, artVars, chunkVars, results, remote,
                   calls, aggVars, abortCause>>

\* lines 215-217: the result is kept if truthy; the inter-call delay
AppendResult ==
    /\ pc = "main_append"
    /\ results' = IF Truthy(rc.result) THEN Append(results, rc.result)
                  ELSE results
    /\ rc' = IdleRc
    /\ pc' = "main_loop"
    /\ UNCHANGED <<inputVars, corrVars, artVars, chunkVars, unit, unitState,
                   remote, calls, aggVars, abortCause>>

\* line 211 when the chunks are exhausted, line 221
LoopDone ==
    /\ pc = "main_loop"
    /\ unit = Len(chunks)
    /\ pc' = "agg_parse"
    /\ UNCHANGED <<inputVars, corrVars, artVars, chunkVars, loopVars, rcVars,
                   aggVars, abortCause>>

(***************************************************************************)
(* generate_final_report, lines 146-190, called by line 221.               *)
(***************************************************************************)
\* lines 147-158; an exception leaves generate_final_report and main
AggParse ==
    /\ pc = "agg_parse"
    /\ LET b == BuildReport(results)
       IN  IF b.exc # "none"
           THEN /\ pc' = "aborted"
                /\ abortCause' = b.exc
                /\ agg' = [agg EXCEPT !.parsed_results = b.parsed]
           ELSE /\ pc' = "agg_digest"
                /\ agg' = [agg EXCEPT !.parsed_results = b.parsed,
                                      !.report = b.report]
                /\ UNCHANGED abortCause
    /\ UNCHANGED <<inputVars, corrVars, artVars, chunkVars, loopVars, rcVars,
                   finalReport, reportWrites>>

\* lines 160-185 (the summary request) or lines 187-188
AggDigest ==
    /\ pc = "agg_digest"
    /\ IF agg.parsed_results # <<>>
       THEN LET t == TopIndicators(agg.parsed_results)
                e == RcEnter("summary", DefaultRetries)
            IN  IF t.exc # "none"
                THEN /\ pc' = "aborted"
                     /\ abortCause' = t.exc
                     /\ UNCHANGED <<agg, rc>>
                ELSE /\ agg' = [agg EXCEPT !.top_indicators = JoinLines(t.items),
                                           !.summary_requests = @ + 1]
                     /\ rc' = e.rc
                     /\ pc' = e.pc
                     /\ UNCHANGED abortCause
       ELSE /\ pc' = "main_write"
            /\ UNCHANGED <<agg, rc, abortCause>>
    /\ UNCHANGED <<inputVars, corrVars, artVars, chunkVars, loopVars, remote,
                   calls, finalReport, reportWrites>>

\* line 186, line 190
AggAssemble ==
    /\ pc = "agg_assemble"
    /\ agg' = [agg EXCEPT !.report = WithSummary(@, rc.result)]
    /\ rc' = IdleRc
    /\ pc' = "main_write"
    /\ UNCHANGED <<inputVars, corrVars, artVars, chunkVars, loopVars, remote,
                   calls, finalReport, reportWrites, abortCause>>

\* lines 223-228
WriteReport ==
    /\ pc = "main_write"
    /\ finalReport' = [exists |-> TRUE, report |-> agg.report]
    /\ reportWrites' = reportWrites + 1
    /\ pc' = "done"
    /\ UNCHANGED <<inputVars, corrVars, artVars, chunkVars, loopVars, rcVars,
                   agg, abortCause>>

(***************************************************************************)
(* The functions under test outside a run of main.                         *)
(***************************************************************************)
\* analyze_with_llm_with_retry(prompt, retries) against the scripted remote
TestAnalyze ==
    /\ pc = "test_call"
    /\ LET e == RcEnter("test", rc.retries)
       IN  /\ rc' = e.rc
           /\ pc' = e.pc
    /\ UNCHANGED <<inputVars, corrVars, artVars, chunkVars, loopVars, remote,
                   calls, aggVars, abortCause>>

\* load_and_chunk_files(input_path, chunk_size), `artifact` being the file at
\* input_path
TestLoadAndChunk ==
    /\ pc = "test_chunk_file"
    /\ chunks' = load_and_chunk_files(artifact, chunk_size)
    /\ pc' = "test_chunked_file"
    /\ UNCHANGED <<inputVars, corrVars, artVars, permissions, chunk_size,
                   loopVars, rcVars, aggVars, abortCause>>

\* chunk_permissions(permissions, chunk_size)
TestChunkPermissions ==
    /\ pc = "test_chunk_permissions"
    /\ chunks' = chunk_permissions(permissions, chunk_size)
    /\ pc' = "test_chunked_permissions"
    /\ UNCHANGED <<inputVars, corrVars, artVars, permissions, chunk_size,
                   loopVars, rcVars, aggVars, abortCause>>

(***************************************************************************)
(* Inputs.                                                                 *)
(***************************************************************************)
SeqsUpTo(S, n) == UNION {[1..k -> S] : k \in 0..n}

\* sequences without repetition, as the keys of a JSON object are
DistinctSeqsUpTo(S, n) ==
    {q \in SeqsUpTo(S, n) : \A i, j \in 1..Len(q) : i # j => q[i] # q[j]}

MethodLine(name) == [shape |-> "method", name |-> name]
OtherLine == [shape |-> "other", name |-> <<>>]

TaxLinePool ==
    { MethodLine(<<"g","e","t">>), MethodLine(<<"G","e","t">>),
      MethodLine(<<"l","o","c">>), MethodLine(<<"i","d">>),
      MethodLine(<<"S","M","S">>), OtherLine }

TaxFiles == {NoFile} \cup {File(ls) : ls \in SeqsUpTo(TaxLinePool, MaxTaxLines)}

InputsIdle ==
    /\ sourcesFile = NoFile
    /\ sinksFile = NoFile
    /\ reportFile = MissingReport

CorrIdle ==
    /\ susi_methods = <<>>
    /\ mobsf_entries = <<>>
    /\ matches = <<>>
    /\ summary = <<>>

ArtIdle ==
    /\ artifact = NoFile
    /\ artifactWrites = 0

LoopIdle ==
    /\ unit = 0
    /\ results = <<>>
    /\ unitState = <<>>

NoFinalReport == [exists |-> FALSE, report |-> NoReport]

AggIdle ==
    /\ agg = IdleAgg
    /\ finalReport = NoFinalReport
    /\ reportWrites = 0

(***************************************************************************)
(* CatalogSpec: lines 196-198 of main on every pair of taxonomy files.     *)
(***************************************************************************)
CatalogInit ==
    /\ pc = "main_sources"
    /\ sourcesFile \in TaxFiles
    /\ sinksFile \in TaxFiles
    /\ reportFile = MissingReport
    /\ CorrIdle /\ ArtIdle /\ LoopIdle /\ AggIdle
    /\ permissions = <<>> /\ chunk_size = ChunkSizeInRun /\ chunks = <<>>
    /\ rc = IdleRc /\ remote = AnyRemote /\ calls = 0
    /\ abortCause = "none"

CatalogNext == LoadSources \/ LoadSinks

CatalogSpec == CatalogInit /\ [][CatalogNext]_vars

\* the lower-cased method names a taxonomy file holds
NamesIn(file) ==
    IF ~file.exists THEN {}
    ELSE {lower(file.lines[i].name) :
            i \in {j \in 1..Len(file.lines) : file.lines[j].shape = "method"}}

UpperSet == {UpperChars[i] : i \in 1..Len(UpperChars)}

\* C8: once both taxonomies are loaded (sources first, sinks second) no
\* method name occurs twice in the catalog and each has one kind, source or
\* sink; every name of the catalog is longer than 2 characters and holds no
\* upper-case letter; and a name that both files hold is in the catalog, as
\* a sink, if it is longer than 2 characters, and is not in it otherwise.
C8_CatalogInvariant ==
    pc = "main_report" =>
        /\ \A i, j \in 1..Len(susi_methods) :
             i # j => susi_methods[i].key # susi_methods[j].key
        /\ \A i \in 1..Len(susi_methods) :
             /\ susi_methods[i].val \in {"source", "sink"}
             /\ Len(susi_methods[i].key) > 2
             /\ \A k \in 1..Len(susi_methods[i].key) :
                  susi_methods[i].key[k] \notin UpperSet
        /\ \A n \in NamesIn(sourcesFile) \cap NamesIn(sinksFile) :
             IF Len(n) > 2
             THEN HasKey(susi_methods, n) /\ DictGet(susi_methods, n) = "sink"
             ELSE ~HasKey(susi_methods, n)

\* a name written "Get" in the sources and "get" in the sinks, loaded
C8_Witness ==
    /\ pc = "main_report"
    /\ sourcesFile.exists /\ sinksFile.exists
    /\ \E i \in 1..Len(sourcesFile.lines), j \in 1..Len(sinksFile.lines) :
         /\ sourcesFile.lines[i] = MethodLine(<<"G","e","t">>)
         /\ sinksFile.lines[j] = MethodLine(<<"g","e","t">>)
    /\ HasKey(susi_methods, <<"g","e","t">>)
    /\ DictGet(susi_methods, <<"g","e","t">>) = "sink"

(***************************************************************************)
(* CorrelateSpec: lines 196-205 of main on every scan report of the pool.  *)
(***************************************************************************)
CategoryPool == { <<"L","o","c">>, <<"l","o","c">>, <<"s","m","s">> }
PathPool == { <<"a","/","g","e","t">>, <<"B">> }

DetailPool ==
    {[has_files |-> FALSE, files |-> <<>>]}
    \cup {[has_files |-> TRUE, files |-> fs] :
            fs \in DistinctSeqsUpTo(PathPool, MaxFiles)}

ApiPool ==
    UNION { {[i \in 1..Len(cs) |-> [key |-> cs[i], val |-> ds[i]]] :
               ds \in [1..Len(cs) -> DetailPool]} :
            cs \in DistinctSeqsUpTo(CategoryPool, MaxCategories) }

ReportPool ==
    {MissingReport, MalformedReport, Report(FALSE, <<>>)}
    \cup {Report(TRUE, api) : api \in ApiPool}

CorrelateInit ==
    /\ pc = "main_sources"
    /\ sourcesFile \in
         {NoFile, File(<<MethodLine(<<"l","o","c">>), MethodLine(<<"G","e","t">>)>>)}
    /\ sinksFile \in
         {NoFile, File(<<MethodLine(<<"g","e","t">>)>>),
          File(<<MethodLine(<<"S","M","S">>), MethodLine(<<"l","o","c">>)>>)}
    /\ reportFile \in ReportPool
    /\ CorrIdle /\ ArtIdle /\ LoopIdle /\ AggIdle
    /\ permissions = <<>> /\ chunk_size = ChunkSizeInRun /\ chunks = <<>>
    /\ rc = IdleRc /\ remote = AnyRemote /\ calls = 0
    /\ abortCause = "none"

CorrelateNext ==
    LoadSources \/ LoadSinks \/ LoadReport \/ Correlate \/ WriteSummary

CorrelateSpec == CorrelateInit /\ [][CorrelateNext]_vars

\* the catalog methods (by position) that are a substring of entry e's
\* category or path
Hits(e) ==
    {m \in 1..Len(susi_methods) :
        \/ IsSubstring(susi_methods[m].key, mobsf_entries[e].category)
        \/ IsSubstring(susi_methods[m].key, mobsf_entries[e].path)}

\* the r-th of them in catalog order
NthHit(e, r) ==
    CHOOSE m \in Hits(e) : Cardinality({n \in Hits(e) : n <= m}) = r

\* the number of matches of the entries before entry e
RECURSIVE HitsBefore(_)
HitsBefore(e) ==
    IF e <= 1 THEN 0 ELSE HitsBefore(e - 1) + Cardinality(Hits(e - 1))

\* C9: the list fuzzy_match returns holds, entry after entry and within an
\* entry in catalog order, one Match (kind, category, path) for each catalog
\* method that is a substring of the entry's category or path, and nothing
\* else: its length is the number of such (entry, method) pairs.
C9_MatchesExactlyTheSubstringPairs ==
    pc = "main_summary" =>
        /\ Len(matches) = HitsBefore(Len(mobsf_entries) + 1)
        /\ \A e \in 1..Len(mobsf_entries) :
             \A r \in 1..Cardinality(Hits(e)) :
                matches[HitsBefore(e) + r] =
                    [typ |-> susi_methods[NthHit(e, r)].val,
                     category |-> mobsf_entries[e].category,
                     path |-> mobsf_entries[e].path]

\* an entry two methods match (one by the category, one by the path alone)
\* next to an entry no method matches
C9_Witness ==
    /\ pc = "main_summary"
    /\ \E e \in 1..Len(mobsf_entries) :
         /\ Cardinality(Hits(e)) >= 2
         /\ \E m \in Hits(e) :
              ~IsSubstring(susi_methods[m].key, mobsf_entries[e].category)
    /\ \E e \in 1..Len(mobsf_entries) : Hits(e) = {}
    /\ Len(matches) >= 3

MatchKey(m) == <<m.category, m.path>>

\* the position of the first Match of key k
FirstSeen(k) ==
    CHOOSE n \in 1..Len(matches) :
        /\ MatchKey(matches[n]) = k
        /\ \A n2 \in 1..(n - 1) : MatchKey(matches[n2]) # k

\* C10: the summary generate_suspicious_summary returns holds no entry whose
\* two counts are zero; its keys are the (category, path) pairs of the
\* Matches, each once, in the order in which the Matches first show them;
\* and the artifact holds one line per entry of the summary, in that order.
C10_SummaryNonZeroInFirstSeenOrder ==
    pc = "main_chunk" =>
        /\ \A i \in 1..Len(summary) :
             ~(summary[i].val.source = 0 /\ summary[i].val.sink = 0)
        /\ {summary[i].key : i \in 1..Len(summary)}
             = {MatchKey(matches[n]) : n \in 1..Len(matches)}
        /\ \A i, j \in 1..Len(summary) :
             i < j => FirstSeen(summary[i].key) < FirstSeen(summary[j].key)
        /\ artifact.exists
        /\ Len(artifact.lines) = Len(summary)
        /\ \A i \in 1..Len(summary) :
             artifact.lines[i] =
                FormatLine(summary[i].key[1], summary[i].key[2], summary[i].val)

\* two keys, the Matches of the first one not all before those of the second
C10_Witness ==
    /\ pc = "main_chunk"
    /\ Len(summary) >= 2
    /\ \E n \in 1..Len(matches) :
         /\ MatchKey(matches[n]) = summary[1].key
         /\ n > FirstSeen(summary[2].key)

(***************************************************************************)
(* ChunkSpec: the two chunking functions on every input of the pool.       *)
(***************************************************************************)
RawLinePool ==
    { <<>>, <<" ">>, <<"a">>, <<" ","b">>, <<"c"," ","d","\t">> }

PermissionPool == { <<"- ","A">>, <<"- ","B">>, <<"- ","C">>, <<"- ","D">>,
                    <<"- ","E">> }

ChunkInit ==
    /\ chunk_size \in 1..MaxChunkSize
    /\ \/ /\ pc = "test_chunk_file"
          /\ artifact \in {File(ls) : ls \in SeqsUpTo(RawLinePool, MaxFileLines)}
          /\ permissions = <<>>
       \/ /\ pc = "test_chunk_permissions"
          /\ artifact = NoFile
          /\ permissions \in DistinctSeqsUpTo(PermissionPool, MaxFileLines)
    /\ artifactWrites = 0
    /\ chunks = <<>>
    /\ InputsIdle /\ CorrIdle /\ LoopIdle /\ AggIdle
    /\ rc = IdleRc /\ remote = AnyRemote /\ calls = 0
    /\ abortCause = "none"

ChunkNext == TestLoadAndChunk \/ TestChunkPermissions

ChunkSpec == ChunkInit /\ [][ChunkNext]_vars

\* text.split("\n")
RECURSIVE SplitLines(_)
SplitLines(text) ==
    IF \A i \in 1..Len(text) : text[i] # "\n" THEN <<text>>
    ELSE LET i == CHOOSE k \in 1..Len(text) :
                    /\ text[k] = "\n"
                    /\ \A k2 \in 1..(k - 1) : text[k2] # "\n"
         IN  <<SubSeq(text, 1, i - 1)>>
             \o SplitLines(SubSeq(text, i + 1, Len(text)))

\* the lines of all units, in order
RECURSIVE LinesOfUnits(_)
LinesOfUnits(us) ==
    IF us = <<>> THEN <<>>
    ELSE SplitLines(Head(us)) \o LinesOfUnits(Tail(us))

IsBlank(line) == \A i \in 1..Len(line) : IsSpace(line[i])

\* the non-blank lines of the input, as the input holds them
NonBlankInput ==
    IF pc = "test_chunked_permissions" THEN permissions
    ELSE SelectSeq(artifact.lines, LAMBDA l : ~IsBlank(l))

\* the non-blank lines of the input as the chunking function takes them:
\* load_and_chunk_files strips each of its surrounding whitespace
TakenInput ==
    IF pc = "test_chunked_permissions" THEN permissions
    ELSE [i \in 1..Len(NonBlankInput) |-> strip(NonBlankInput[i])]

\* ceil(n / d)
CeilDiv(n, d) == (n + d - 1) \div d

UnitShape ==
    /\ Len(chunks) = CeilDiv(Len(NonBlankInput), chunk_size)
    /\ \A c \in 1..Len(chunks) :
         /\ Len(SplitLines(chunks[c])) <= chunk_size
         /\ c < Len(chunks) => Len(SplitLines(chunks[c])) = chunk_size

\* C4 as stated: ceil(N / chunk_size) units, each of chunk_size lines but
\* possibly the last, whose lines together are the non-blank input lines.
C4_AsStated ==
    pc \in {"test_chunked_file", "test_chunked_permissions"} =>
        /\ UnitShape
        /\ LinesOfUnits(chunks) = NonBlankInput

\* C4, amended: ceil(N / chunk_size) units, each of chunk_size lines but
\* possibly the last, whose lines together are, in order, the non-blank
\* input lines, each without its leading and trailing whitespace when the
\* input is a file (chunk_permissions takes the lines as they are).
C4_UnitsPartitionTheStrippedLines ==
    pc \in {"test_chunked_file", "test_chunked_permissions"} =>
        /\ UnitShape
        /\ LinesOfUnits(chunks) = TakenInput

\* a file with a blank line and a line with whitespace around it, cut into
\* a full unit and a shorter last one
C4_Witness ==
    /\ pc = "test_chunked_file"
    /\ chunk_size = 2
    /\ Len(NonBlankInput) = 3
    /\ Len(artifact.lines) = 4
    /\ TakenInput # NonBlankInput
    /\ Len(chunks) = 2

(***************************************************************************)
(* RetrySpec: analyze_with_llm_with_retry with every retries argument      *)
(* against a remote whose first k calls fail and whose later calls return  *)
(* a text.                                                                 *)
(***************************************************************************)
RetryInit ==
    /\ pc = "test_call"
    /\ \E r \in 1..MaxRetries : rc = [IdleRc EXCEPT !.retries = r]
    /\ \E k \in 0..MaxFailures, text \in {Prose, Verdict("low", << <<"l1">> >>)} :
         remote = Scripted(k, text)
    /\ calls = 0
    /\ InputsIdle /\ CorrIdle /\ ArtIdle /\ LoopIdle /\ AggIdle
    /\ permissions = <<>> /\ chunk_size = ChunkSizeInRun /\ chunks = <<>>
    /\ abortCause = "none"

RetryNext == TestAnalyze \/ RcCall \/ RcBackoff

RetrySpec == RetryInit /\ [][RetryNext]_vars

\* the sum of 2^i for i in 0..n-1
RECURSIVE SumPow2(_)
SumPow2(n) == IF n <= 0 THEN 0 ELSE SumPow2(n - 1) + 2 ^ (n - 1)

ReturnsSuccessIffFewFailures ==
    /\ (rc.result = remote.text) <=> (remote.fails < rc.retries)
    /\ remote.fails >= rc.retries => rc.result = None

\* C1 as stated: with k failing calls before the first successful one, the
\* client returns the text iff k < retries, None otherwise, and has waited
\* at least the sum of 2^i for i in 0..k-1.
C1_AsStated ==
    pc = "test_returned" =>
        /\ ReturnsSuccessIffFewFailures
        /\ rc.waited >= SumPow2(remote.fails)

\* C1, amended: with k failing calls before the first successful one, the
\* client returns the text iff k < retries, None otherwise, and has waited
\* at least the sum of 2^i for i in 0..min(k, retries)-1.
C1_RetryReturnsAndWaits ==
    pc = "test_returned" =>
        /\ ReturnsSuccessIffFewFailures
        /\ rc.waited >= SumPow2(Min(remote.fails, rc.retries))

\* the client gave up after 3 attempts on a remote that fails 5 times
C1_Witness ==
    /\ pc = "test_returned"
    /\ rc.retries = 3
    /\ remote.fails = 5
    /\ calls = 3
    /\ rc.result = None
    /\ rc.waited = 7

(***************************************************************************)
(* Spec: a run of main, lines 192-228, on the inputs of a small pool and   *)
(* against a remote service that answers each call as it likes.            *)
(***************************************************************************)
RunReport ==
    Report(TRUE,
           << [key |-> <<"L","o","c">>,
               val |-> [has_files |-> TRUE,
                        files |-> << <<"a","/","g","e","t">>, <<"B">> >>]],
              [key |-> <<"s","m","s">>,
               val |-> [has_files |-> TRUE, files |-> << <<"B">> >>]],
              [key |-> <<"x","l","o","c">>,
               val |-> [has_files |-> TRUE, files |-> << <<"C">> >>]],
              [key |-> <<"n","e","t">>,
               val |-> [has_files |-> FALSE, files |-> <<>>]] >>)

\* the file at INTERMEDIATE_OUTPUT that an earlier run left behind
StaleArtifact ==
    File(<<FormatLine(<<"o","l","d">>, <<"z">>, [source |-> 1, sink |-> 0])>>)

Init ==
    /\ pc = "main_sources"
    /\ sourcesFile \in
         {NoFile, File(<<MethodLine(<<"l","o","c">>), MethodLine(<<"G","e","t">>)>>)}
    /\ sinksFile \in
         {NoFile, File(<<MethodLine(<<"g","e","t">>), OtherLine,
                         MethodLine(<<"S","M","S">>)>>)}
    /\ reportFile \in
         {MissingReport, MalformedReport, Report(FALSE, <<>>), RunReport}
    /\ artifact \in {NoFile, StaleArtifact}
    /\ artifactWrites = 0
    /\ CorrIdle /\ LoopIdle /\ AggIdle
    /\ permissions = <<>> /\ chunk_size = ChunkSizeInRun /\ chunks = <<>>
    /\ rc = IdleRc /\ remote = AnyRemote /\ calls = 0
    /\ abortCause = "none"

Next ==
    \/ LoadSources \/ LoadSinks \/ LoadReport \/ Correlate \/ WriteSummary
    \/ ChunkArtifact \/ NextUnit \/ RcCall \/ RcBackoff \/ AppendResult
    \/ LoopDone \/ AggParse \/ AggDigest \/ AggAssemble \/ WriteReport

Spec == Init /\ [][Next]_vars

\* main is one sequential thread and every remote call returns or fails
\* (the client's per-call timeout): a step that can be taken is taken
FairSpec == Spec /\ WF_vars(Next)

(***************************************************************************)
(* AggSpec: lines 221-228 of main, generate_final_report on every list of  *)
(* raw responses of the pool.                                              *)
(***************************************************************************)
AggInit ==
    /\ pc = "agg_parse"
    /\ results \in SeqsUpTo(VerdictTexts, MaxResults)
    /\ unit = 0 /\ unitState = <<>>
    /\ InputsIdle /\ CorrIdle /\ ArtIdle /\ AggIdle
    /\ permissions = <<>> /\ chunk_size = ChunkSizeInRun /\ chunks = <<>>
    /\ rc = IdleRc /\ remote = AnyRemote /\ calls = 0
    /\ abortCause = "none"

AggNext ==
    AggParse \/ AggDigest \/ RcCall \/ RcBackoff \/ AggAssemble \/ WriteReport

AggSpec == AggInit /\ [][AggNext]_vars

(***************************************************************************)
(* Properties of a run of main.                                            *)
(***************************************************************************)
RemoteErrors == {"APIConnectionError", "APITimeoutError", "RateLimitError"}
AggregatorErrors == {"AttributeError", "KeyError", "IndexError"}

\* a raw response that spells a Verdict: a JSON object with a risk_level and
\* key_indicators, the latter not empty when the level is medium or high
SpellsVerdict(r) ==
    /\ r.t = "str"
    /\ ~r.empty
    /\ r.doc.j = "object"
    /\ {"risk_level", "key_indicators"} \subseteq r.doc.keys
    /\ r.doc.risk_level \in {"medium", "high"} => r.doc.key_indicators # <<>>

UnitsIn(st) == {u \in DOMAIN unitState : unitState[u].st = st}

LoopLeft ==
    \/ pc \in {"agg_parse", "agg_digest", "agg_assemble", "main_write", "done"}
    \/ (pc = "aborted" /\ abortCause \in AggregatorErrors)
    \/ (pc \in {"rc_call", "rc_backoff"} /\ rc.for = "summary")

\* what the retry loop of main guarantees whatever the remote calls do: no
\* exception of a remote call ends the run, a dropped unit made 3 failed
\* attempts and left nothing in the results, which hold one response per
\* successful unit, and every unit is analysed or dropped when the loop is left
FailuresLeaveTheLoopRunning ==
    /\ abortCause \notin RemoteErrors
    /\ Len(results) <= Cardinality(UnitsIn("Success"))
    /\ (pc = "main_loop" \/ LoopLeft)
         => Len(results) = Cardinality(UnitsIn("Success"))
    /\ \A u \in UnitsIn("Dropped") : unitState[u].fails = DefaultRetries
    /\ LoopLeft => \A u \in DOMAIN unitState :
                      unitState[u].st \in {"Success", "Dropped"}

\* C2: whatever the remote calls do, no exception of a remote call ends the
\* run; a unit whose attempts all failed adds nothing to the results, which
\* hold one response per successful unit; the loop goes on to the remaining
\* units, so that every unit is analysed or dropped when the loop is left;
\* and a run that dropped a unit never ends short of the final report.
C2_FailuresAreSoft ==
    /\ FailuresLeaveTheLoopRunning
    /\ UnitsIn("Dropped") # {} => pc # "aborted"

UnitStep(a, b) ==
    /\ a.st \in {"Success", "Dropped"} => b = a
    /\ b.st = "Pending" => a.st = "Pending"
    /\ a.st = "Pending" /\ b # a
         => b.st = "Attempt" /\ b.attempt = 0 /\ b.attempts = 1
    /\ a.st = "Attempt" /\ b # a
         => /\ b.st \in {"Success", "Backoff"}
            /\ b.attempt = a.attempt
            /\ b.attempts = a.attempts
    /\ a.st = "Backoff" /\ b # a
         => \/ /\ b.st = "Attempt"
               /\ b.attempt = a.attempt + 1
               /\ b.attempts = a.attempts + 1
            \/ /\ b.st = "Dropped"
               /\ b.attempts = a.attempts
    /\ b.attempt <= DefaultRetries - 1
    /\ b.st = "Dropped"
         => b.fails = DefaultRetries /\ b.attempts = DefaultRetries

\* C3: every step of a run moves each unit along Pending -> Attempt(0),
\* Attempt(i) -> Success or Backoff, Backoff -> Attempt(i+1) or Dropped: the
\* attempt index grows by one at a time and stays below the 3 attempts of
\* the client, a unit in Success or Dropped never changes again (no further
\* attempt, no return to Pending), and a unit is Dropped only with 3
\* attempts made and 3 of them failed.
C3_UnitStateMachine ==
    [][\A u \in DOMAIN unitState \cap DOMAIN unitState' :
          UnitStep(unitState[u], unitState'[u])]_vars

\* a unit dropped after three failures, then a unit that succeeded at its
\* second attempt, and the loop left
C3_Witness ==
    /\ pc = "agg_parse"
    /\ Len(unitState) = 2
    /\ unitState[1] = [st |-> "Dropped", attempt |-> 2, fails |-> 3, attempts |-> 3]
    /\ unitState[2] = [st |-> "Success", attempt |-> 1, fails |-> 1, attempts |-> 2]

(***************************************************************************)
(* Properties of generate_final_report.                                    *)
(***************************************************************************)
\* a raw response the code keeps: a non-empty text that json.loads turns
\* into a truthy value
Kept(r) ==
    /\ r.t = "str"
    /\ ~r.empty
    /\ \/ r.doc.j = "list" /\ r.doc.len > 0
       \/ r.doc.j = "object" /\ r.doc.keys # {}

KeptAt == {i \in 1..Len(results) : Kept(results[i])}

HasLevel(r, level) ==
    /\ r.doc.j = "object"
    /\ "risk_level" \in r.doc.keys
    /\ r.doc.risk_level = level

VerdictAt == {i \in 1..Len(results) : SpellsVerdict(results[i])}

\* C5: the report's high_risk is the number of responses that parse as a
\* Verdict whose risk_level is "high"; and when no response parses as a
\* Verdict, no summary is asked for and no remote call made,
\* generate_final_report raises nothing and returns a report without
\* findings whose executive_summary is None.
C5_HighRiskAndEmptyCase ==
    /\ agg.report.built
         => agg.report.high_risk
              = Cardinality({i \in VerdictAt : HasLevel(results[i], "high")})
    /\ VerdictAt = {}
         => /\ agg.summary_requests = 0
            /\ calls = 0
            /\ pc # "aborted"
            /\ agg.report.detailed_findings = <<>>
            /\ agg.report.executive_summary = None

\* the parsed form of the responses that spell a Verdict, in order
RECURSIVE VerdictsOf(_)
VerdictsOf(rs) ==
    IF rs = <<>> THEN <<>>
    ELSE (IF SpellsVerdict(Head(rs)) THEN <<json_loads(Head(rs)).value>>
          ELSE <<>>)
         \o VerdictsOf(Tail(rs))

\* C6: generate_final_report never raises, and the findings of the report it
\* builds are the responses that spell a Verdict, in order: a response that
\* spells none (no JSON, no object, an object without risk_level or
\* key_indicators, a medium or high verdict with no indicator) leaves no
\* entry in them.
C6_UnparsableResponsesAreDropped ==
    /\ pc # "aborted"
    /\ agg.report.built => agg.report.detailed_findings = VerdictsOf(results)

\* C7 as stated: total_chunks is the number of findings, so that a response
\* that did not parse is counted nowhere, and high_risk + medium_risk is at
\* most total_chunks.
C7_AsStated ==
    agg.report.built
        => /\ agg.report.total_chunks = Len(agg.report.detailed_findings)
           /\ agg.report.high_risk + agg.report.medium_risk
                <= agg.report.total_chunks

\* C7, amended: high_risk and medium_risk count the parsed responses of
\* their level, whereas total_chunks is the number of raw responses given,
\* parsed or not: high_risk + medium_risk <= number of findings <=
\* total_chunks, and the findings are as many as the parsed responses.
C7_StatisticsOfTheReport ==
    agg.report.built
        => /\ agg.report.total_chunks = Len(results)
           /\ Len(agg.report.detailed_findings) = Cardinality(KeptAt)
           /\ agg.report.high_risk
                = Cardinality({i \in KeptAt : HasLevel(results[i], "high")})
           /\ agg.report.medium_risk
                = Cardinality({i \in KeptAt : HasLevel(results[i], "medium")})
           /\ agg.report.high_risk + agg.report.medium_risk
                <= Len(agg.report.detailed_findings)
           /\ Len(agg.report.detailed_findings) <= agg.report.total_chunks

\* a report over a high verdict and a response that is no JSON
C7_Witness ==
    /\ pc = "done"
    /\ finalReport.report.total_chunks = 2
    /\ Len(finalReport.report.detailed_findings) = 1
    /\ finalReport.report.high_risk = 1
    /\ \E i \in 1..Len(results) : results[i] = Prose

(***************************************************************************)
(* Properties of the loaders and of the retry client in a run of main.     *)
(***************************************************************************)
LoadersLeft == pc \notin {"main_sources", "main_sinks", "main_report"}

\* C11: a taxonomy file or a scan report that is missing is read as an empty
\* input (no catalog entry of that file, no behavior entry) and does not end
\* the run; the only run that ends short of the final report is the run on a
\* scan report that exists and is no JSON.
C11_MissingInputsAreEmptyInputs ==
    /\ (LoadersLeft /\ ~sourcesFile.exists /\ ~sinksFile.exists)
         => susi_methods = <<>>
    /\ ~reportFile.exists
         => /\ pc # "aborted"
            /\ LoadersLeft => mobsf_entries = <<>>
    /\ pc = "aborted" => (reportFile.exists /\ ~reportFile.valid)

\* C12: the retry client that returns no result after `retries` failed
\* attempts slept between the attempts only, 2^i seconds after attempt i for
\* i in 0..retries-2, and not after the last one.
C12_NoBackoffAfterTheLastAttempt ==
    (pc = "test_returned" /\ rc.result = None /\ calls = rc.retries)
        => rc.waited = SumPow2(rc.retries - 1)

(***************************************************************************)
(* Order of the per-unit analysis, lines 207-221 and 146-158.              *)
(***************************************************************************)
Terminal(u) == unitState[u].st \in {"Success", "Dropped"}

InFlight == {u \in DOMAIN unitState : unitState[u].st \in {"Attempt", "Backoff"}}

SuccessUpTo(n) == {v \in 1..n : v \in DOMAIN unitState /\ unitState[v].st = "Success"}

\* the parsed form of the responses that generate_final_report keeps, in the
\* order of the responses
RECURSIVE FindingsOf(_)
FindingsOf(rs) ==
    IF rs = <<>> THEN <<>>
    ELSE (IF Kept(Head(rs)) THEN <<json_loads(Head(rs)).value>> ELSE <<>>)
         \o FindingsOf(Tail(rs))

\* the response of a successful unit that line 216 has not appended yet
Unappended ==
    IF pc = "main_append" /\ unitState[unit].st = "Success" THEN 1 ELSE 0

OneUnitAtATime ==
    /\ \A u \in DOMAIN unitState :
         unitState[u].st # "Pending"
            => (u <= unit /\ \A v \in 1..(u - 1) : Terminal(v))
    /\ InFlight \subseteq {unit}
    /\ pc \in {"rc_call", "rc_backoff"}
         => IF rc.for = "unit" THEN InFlight = {unit}
            ELSE \A u \in DOMAIN unitState : Terminal(u)
    /\ pc \notin {"rc_call", "rc_backoff"} => InFlight = {}
    /\ Len(results) = Cardinality(SuccessUpTo(unit)) - Unappended
    /\ agg.report.built
         => agg.report.detailed_findings = FindingsOf(results)

ResultsGrowInUnitOrder ==
    /\ unit' \in {unit, unit + 1}
    /\ results' # results
         => /\ pc = "main_append"
            /\ unit' = unit
            /\ unitState[unit].st = "Success"
            /\ results' = Append(results, rc.result)
            /\ Len(results') = Cardinality(SuccessUpTo(unit))

\* C13: a unit is first attempted only when every unit before it is in
\* Success or Dropped; at most one unit is being attempted or backed off, a
\* remote call is made for that unit or, every unit being terminal, for the
\* summary; the results grow only by the response of the current successful
\* unit, appended at the position of its rank among the successful units,
\* and the unit index never decreases; and detailed_findings is the parsed
\* form of the kept responses in the order of the results: the findings are
\* in increasing order of unit, dropped units and responses that are no
\* JSON leaving no entry.
C13_SequentialAndInOrder ==
    /\ []OneUnitAtATime
    /\ [][ResultsGrowInUnitOrder]_vars

\* a run of two units, both analysed at the first attempt, whose report
\* lists the medium verdict of unit 1 before the high verdict of unit 2
C13_Witness ==
    /\ pc = "done"
    /\ Len(unitState) = 2
    /\ unitState[1].st = "Success" /\ unitState[2].st = "Success"
    /\ results = <<Verdict("medium", << <<"m1">> >>),
                   Verdict("high", << <<"h1">>, <<"h2">> >>)>>
    /\ Len(finalReport.report.detailed_findings) = 2
    /\ finalReport.report.detailed_findings[1].risk_level = "medium"
    /\ finalReport.report.detailed_findings[2].risk_level = "high"

(***************************************************************************)
(* Persistence: the file at INTERMEDIATE_OUTPUT (line 73) and the file at  *)
(* FINAL_REPORT_PATH (line 223) are all that a run writes.                 *)
(***************************************************************************)
BeforeArtifact ==
    pc \in {"main_sources", "main_sinks", "main_report", "main_match",
            "main_summary"}

WrittenAtDefinitePoints ==
    /\ artifactWrites \in {0, 1}
    /\ reportWrites \in {0, 1}
    /\ artifactWrites = 0
         => /\ BeforeArtifact \/ pc = "aborted"
            /\ chunks = <<>> /\ unitState = <<>> /\ calls = 0
            /\ reportWrites = 0
    /\ artifactWrites = 1
         => /\ ~BeforeArtifact
            /\ artifact = File(SummaryLines(summary))
    /\ reportWrites = 0 => finalReport = NoFinalReport
    /\ reportWrites = 1
         => /\ pc = "done"
            /\ \A u \in DOMAIN unitState : Terminal(u)
            /\ rc = IdleRc
            /\ finalReport = [exists |-> TRUE, report |-> agg.report]
    /\ pc = "done" => (artifactWrites = 1 /\ reportWrites = 1)

NothingElseIsPersisted ==
    /\ (artifact' # artifact \/ artifactWrites' # artifactWrites)
         => /\ pc = "main_summary" /\ pc' = "main_chunk"
            /\ artifactWrites' = artifactWrites + 1
    /\ (finalReport' # finalReport \/ reportWrites' # reportWrites)
         => /\ pc = "main_write" /\ pc' = "done"
            /\ reportWrites' = reportWrites + 1
    /\ <<sourcesFile, sinksFile, reportFile>>'
         = <<sourcesFile, sinksFile, reportFile>>

UnitsFormed == artifactWrites = 1 /\ pc # "main_chunk"

RunEnded == pc \in {"done", "aborted"}

\* at most 3 calls per unit and 3 for the summary; at least one per unit
\* once the loop is left
CallsAreBounded ==
    UnitsFormed
        => /\ calls <= DefaultRetries * (Len(chunks) + 1)
           /\ LoopLeft => calls >= Len(chunks)

\* every run comes to an end when each call returns or fails
RunTerminates == <>RunEnded

\* C15: a run over U units makes at least U and at most 3 * (U + 1) remote
\* calls, and whatever the calls returned or raised, the run that formed its
\* units ends with the final report written.
C15_RunEndsWithTheReport ==
    /\ CallsAreBounded
    /\ (UnitsFormed /\ RunEnded) => (pc = "done" /\ reportWrites = 1)

(***************************************************************************)
(* The summary request of generate_final_report, lines 160-186.            *)
(***************************************************************************)
\* the first indicator of every response that spells a medium or high
\* Verdict, in the order of the responses
RECURSIVE DigestOf(_)
DigestOf(rs) ==
    IF rs = <<>> THEN <<>>
    ELSE (IF SpellsVerdict(Head(rs))
             /\ Head(rs).doc.risk_level \in {"medium", "high"}
          THEN <<Head(rs).doc.key_indicators[1]>>
          ELSE <<>>)
         \o DigestOf(Tail(rs))

DigestPassed == pc \notin {"agg_parse", "agg_digest"}

\* C16: when at least one response parses as a Verdict,
\* generate_final_report asks the retry client for a summary exactly once,
\* after it has parsed every response, and the digest of that request is
\* the first key_indicators entry of each medium or high Verdict, in the
\* order of the responses, low Verdicts adding nothing.
C16_OneSummaryRequestWithTheDigest ==
    /\ agg.summary_requests <= 1
    /\ agg.summary_requests = 1 => agg.report.built
    /\ (VerdictAt # {} /\ DigestPassed)
         => /\ pc # "aborted"
            /\ agg.summary_requests = 1
            /\ agg.top_indicators = JoinLines(DigestOf(results))

(***************************************************************************)
(* Empty responses in the retry client, lines 101-109 and 211-217.         *)
(***************************************************************************)
AtReturnSite == pc \in {"main_append", "agg_assemble", "test_returned"}

NonEmptyText(r) == r.t = "str" /\ ~r.empty

EmptyIsNoSuccess ==
    /\ rc.result = EmptyStr
         => /\ pc \in {"rc_call", "rc_backoff"}
            /\ rc.for = "unit" => unitState[unit].st \in {"Attempt", "Backoff"}
    /\ AtReturnSite => (rc.result = None \/ NonEmptyText(rc.result))
    /\ \A u \in DOMAIN unitState :
         unitState[u].st = "Success" => unitState[u].fails < DefaultRetries
    /\ \A i \in 1..Len(results) : NonEmptyText(results[i])

EmptyIsHandledAsAFailure ==
    /\ (pc = "rc_call" /\ rc'.result = EmptyStr)
         => /\ pc' = "rc_backoff"
            /\ rc.for = "unit"
                 => /\ unitState'[unit].st = "Backoff"
                    /\ unitState'[unit].fails = unitState[unit].fails + 1
    /\ (pc = "rc_backoff" /\ rc.attempt + 1 < rc.retries)
         => /\ pc' = "rc_call"
            /\ rc'.attempt = rc.attempt + 1
            /\ rc'.waited = rc.waited + 2 ^ rc.attempt
    /\ (pc = "rc_backoff" /\ rc.attempt + 1 >= rc.retries)
         => /\ AtReturnSite'
            /\ rc'.result = None
            /\ rc.for = "unit"
                 => /\ unitState'[unit].st = "Dropped"
                    /\ results' = results
    /\ (pc = "main_append" /\ rc.result = None) => results' = results

\* C17: a call that returns empty text is followed by the backoff and, while
\* attempts remain, by the next attempt, exactly as a call that raised or
\* returned nothing; empty text is never the result the client returns and
\* its unit is never in Success; after the last attempt the client returns
\* no result and the unit is dropped, adding nothing to the results; and
\* every element of the results is a non-empty text.
C17_EmptyResponseIsAFailure ==
    /\ []EmptyIsNoSuccess
    /\ [][EmptyIsHandledAsAFailure]_vars

\* the third attempt of the first unit has just returned empty text
C17_Witness ==
    /\ pc = "rc_backoff"
    /\ rc.for = "unit"
    /\ rc.result = EmptyStr
    /\ rc.attempt = 2
    /\ unitState[unit].fails = 3

(***************************************************************************)
(* The report when the summary request fails, lines 160-190 and 220-228.   *)
(***************************************************************************)
\* the summary was asked for and generate_final_report has returned
SummaryCallOver == agg.summary_requests = 1 /\ pc \in {"main_write", "done"}

\* statistics and findings as functions of the responses alone
ReportOverResponses(report) ==
    /\ report.built
    /\ report.total_chunks = Len(results)
    /\ report.high_risk
         = Cardinality({i \in KeptAt : HasLevel(results[i], "high")})
    /\ report.medium_risk
         = Cardinality({i \in KeptAt : HasLevel(results[i], "medium")})
    /\ report.detailed_findings = FindingsOf(results)

SummaryFailureLeavesTheReport ==
    /\ SummaryCallOver
         => /\ ReportOverResponses(agg.report)
            /\ agg.report.executive_summary \in {None, Prose}
    /\ (pc = "agg_assemble" /\ rc.result = None)
         => /\ calls = DefaultRetries
            /\ ReportOverResponses(agg.report)
    /\ (pc = "done" /\ agg.summary_requests = 1)
         => /\ reportWrites = 1
            /\ finalReport = [exists |-> TRUE, report |-> agg.report]

SummaryFailureIsNotRaised ==
    /\ pc = "agg_assemble"
         => /\ pc' = "main_write"
            /\ agg'.report.executive_summary = rc.result
            /\ agg'.report.detailed_findings = agg.report.detailed_findings
            /\ agg'.report.total_chunks = agg.report.total_chunks
            /\ agg'.report.high_risk = agg.report.high_risk
            /\ agg'.report.medium_risk = agg.report.medium_risk
    /\ pc = "main_write" => (pc' = "done" /\ reportWrites' = 1)

\* C18: when the summary request has failed on all its 3 attempts,
\* generate_final_report raises nothing and returns the report with
\* executive_summary None; its statistics and its findings depend on the
\* responses alone, so that they are those of the report whose summary
\* request succeeded; and the step that follows writes that report to the
\* final report file.
C18_ReportSurvivesSummaryFailure ==
    /\ []SummaryFailureLeavesTheReport
    /\ [][SummaryFailureIsNotRaised]_vars

\* a high and a low Verdict parsed, the summary request failed three times,
\* and the report was written with both findings and no summary
C18_Witness ==
    /\ pc = "done"
    /\ results = <<Verdict("high", << <<"h1">>, <<"h2">> >>),
                   Verdict("low", << <<"l1">> >>)>>
    /\ agg.summary_requests = 1
    /\ calls = 3
    /\ finalReport.report.executive_summary = None
    /\ finalReport.report.high_risk = 1
    /\ Len(finalReport.report.detailed_findings) = 2

(***************************************************************************)
(* The counts of generate_suspicious_summary, lines 68-79.                 *)
(***************************************************************************)
\* the Matches of kind typ and key k
MatchesOf(k, typ) ==
    {n \in 1..Len(matches) : MatchKey(matches[n]) = k /\ matches[n].typ = typ}

RECURSIVE SumCounts(_)
SumCounts(summ) ==
    IF summ = <<>> THEN 0
    ELSE Head(summ).val.source + Head(summ).val.sink + SumCounts(Tail(summ))

\* C19: in the summary generate_suspicious_summary returns, every key is
\* there once and every Match's key is there; the source count of a key is
\* the number of Matches of kind source with that key and its sink count the
\* number of kind sink; and all counts add up to the number of Matches.
C19_SummaryConservesCounts ==
    pc = "main_chunk" =>
        /\ \A i, j \in 1..Len(summary) :
             summary[i].key = summary[j].key => i = j
        /\ \A n \in 1..Len(matches) :
             \E i \in 1..Len(summary) : summary[i].key = MatchKey(matches[n])
        /\ \A i \in 1..Len(summary) :
             /\ summary[i].val.source
                  = Cardinality(MatchesOf(summary[i].key, "source"))
             /\ summary[i].val.sink
                  = Cardinality(MatchesOf(summary[i].key, "sink"))
        /\ SumCounts(summary) = Len(matches)

\* several keys, one of them counted for a source and for a sink
C19_Witness ==
    /\ pc = "main_chunk"
    /\ Len(summary) >= 2
    /\ Len(matches) >= 4
    /\ \E i \in 1..Len(summary) :
         summary[i].val.source >= 1 /\ summary[i].val.sink >= 1

=============================================================================
